---- MODULE Spec2Model ----
(***************************************************************************)
(* Verification model of the echoTTS-app streaming core:                   *)
(*   - the Alibaba realtime WebSocket proxy of server.js (one bridge per   *)
(*     client connection),                                                 *)
(*   - the useAlibabaTTS session (hooks/useAlibabaTTS.ts, generate()),     *)
(*   - the PCM accumulate / decode / schedule loop of generateStreaming    *)
(*     (hooks/useStreamingTTS.ts, both revisions held by the repository).  *)
(* Each part has its own specification; the variables of the other parts   *)
(* stay at their initial value.                                            *)
(***************************************************************************)
EXTENDS Integers, Sequences, FiniteSets, TLC

VARIABLES
    \* ---- server.js, wss.on('connection') : one entry per connection ----
    apiKey,         \* ALIBABA_API_KEY is configured
    clientState,    \* clientWs.readyState ("NONE" before the connection event)
    upState,        \* alibabaWs.readyState ("NULL" while alibabaWs is null)
    messageBuffer,  \* messageBuffer: the data values pushed while CONNECTING
    toUpstream,     \* frames handed to alibabaWs.send, in order
    toClient,       \* frames handed to clientWs.send while it was OPEN
    clientRecv,     \* history: frames the client 'message' handler received
    upRecv,         \* history: frames the upstream 'message' handler received
    frames,         \* number of frames injected so far (all connections)
    \* ---- useAlibabaTTS.ts, generate() : one call, one WebSocket ----
    ws,             \* ws.readyState
    sessionCreated, \* let sessionCreated
    inputSent,      \* let inputSent
    finishPending,  \* let finishPending
    updateWaitTimer,\* let updateWaitTimer (0 is null)
    timers,         \* fallback timers that are armed (ids handed out by setTimeout)
    timerSeq,       \* number of fallback timers created so far
    timeout,        \* the 30 s connect timer: "armed", "cleared" or "fired"
    audioChunks,    \* audioChunks: arrival numbers of the frames pushed, in push order
    reads,          \* FileReader reads in flight (arrival numbers of the Blob frames)
    sent,           \* calls of ws.send, in order, with the socket state at the call
    promise,        \* the promise generate() returned
    rxLog,          \* history: the frames the message handler has received
    audioRx,        \* history: arrival numbers of the audio frames received
    fallbackSends,  \* history: times the fallback timer callback called sendInput
    \* ---- useStreamingTTS.ts, generateStreaming() : one call ----
    rev,            \* which of the two definitions of the hook runs (1: l.30, 2: l.312)
    ctxRate,        \* audioContext.sampleRate
    pc,             \* "reading", "done" (completed) or "failed" (the catch ran)
    buffer,         \* buffer: the bytes held, as runs <<first, last>> of stream positions
    received,       \* number of bytes read from the response so far
    startTime,      \* let startTime (0 = not started), in ticks
    clock,          \* audioContext.currentTime, in ticks
    blocks,         \* history: the blocks handed to source.start, in order
    totalChunks,    \* let totalChunks
    totalSamples,   \* let totalSamples
    progress,       \* state.progress
    chunkCalls,     \* history: the chunk numbers passed to onChunk
    outcome,        \* which of onComplete / onError was called; val: the duration
    threw,          \* history: a callback threw inside the decode loop
    isStreaming,    \* state.isStreaming
    nReads,         \* number of reader.read() results so far
    nTicks,         \* number of clock advances so far
    \* ---- server.js, app.post('/api/tts/stream') and the hook's fetch ----
    httpPc,         \* "idle", "forwarding", "answered", "relayed" or "received"
    upstream,       \* the upstream response: status (0: none), body text, audio body
    relayed,        \* what the proxy wrote to res: status, body text, audio piped
    errorMsg,       \* the message of the Error the hook threw, as its parts
    \* ---- useAlibabaTTS.ts, createWavBlob(pcmData, sampleRate) : one call ----
    pcmLen,         \* pcmData.length
    pcmRate,        \* sampleRate
    wav,            \* the Blob returned (NoWav before the call)
    \* ---- useAlibabaTTS.ts, sendEvent(payload) : one call ----
    evPayload,      \* payload: its fields in insertion order
    evJson,         \* the string handed to ws.send, as characters
    \* ---- useHistory.ts, useHistory() ----
    history,        \* the history state React holds
    closure,        \* the history the callbacks of the last render closed over
    stored,         \* the value under DB_KEY in IndexedDB
    ideal,          \* history: the list if every call had seen the one before
    nAdded,         \* number of addItem calls so far (the next item's id)
    \* ---- useStreamingTTS.ts, the PCM16 to Float32 loop body : one sample ----
    pcmLo,          \* buffer[byteIndex]
    pcmHi,          \* buffer[byteIndex + 1]
    decoded         \* float32Array[i] as its numerator over 32768 (NotDecoded before)

pvars == <<apiKey, clientState, upState, messageBuffer, toUpstream, toClient,
           clientRecv, upRecv, frames>>

svars == <<ws, sessionCreated, inputSent, finishPending, updateWaitTimer, timers,
           timerSeq, timeout, audioChunks, reads, sent, promise, rxLog, audioRx,
           fallbackSends>>

tvars == <<rev, ctxRate, pc, buffer, received, startTime, clock, blocks, totalChunks,
           totalSamples, progress, chunkCalls, outcome, threw, isStreaming, nReads,
           nTicks>>

hvars == <<httpPc, upstream, relayed, errorMsg>>

\* the parts added to the three above
wvars == <<pcmLen, pcmRate, wav>>

evars == <<evPayload, evJson>>

yvars == <<history, closure, stored, ideal, nAdded>>

dvars == <<pcmLo, pcmHi, decoded>>

ovars == <<hvars, wvars, evars, yvars, dvars>>

vars == <<pvars, svars, tvars, ovars>>

\* ------------------------------------------------------------------------
\* Bounds
\* ------------------------------------------------------------------------
MaxFrames == 2
MaxEvents == 4
MaxReads == 3
MaxTicks == 1
MaxChunks == 21
MaxPcm == 100
MaxText == 3
MaxAdds == 6

Conns == {1, 2}
Kinds == {"text", "binary"}

\* ------------------------------------------------------------------------
\* Generic helpers
\* ------------------------------------------------------------------------
IsPrefix(s, t) == Len(s) <= Len(t) /\ SubSeq(t, 1, Len(s)) = s

Range(s) == {s[i] : i \in 1..Len(s)}

\* ------------------------------------------------------------------------
\* ws library: the kind of frame send() produces for a value
\* (a string goes out as a text frame, a Buffer as a binary frame)
\* ------------------------------------------------------------------------
FrameKindOf(repr) == IF repr = "string" THEN "text" ELSE "binary"

\* mutant: close() has no effect on a socket that is still CONNECTING
CloseSock_OnlyOpen(st) == IF st = "OPEN" THEN "CLOSING" ELSE st

\* ws.close(): OPEN and CONNECTING sockets start closing, others are unchanged
CloseSock(st) == IF st \in {"OPEN", "CONNECTING"} THEN "CLOSING" ELSE st

\* clientWs.send(msg): delivered only while the socket is OPEN
SendClient(c, msg) ==
    IF clientState[c] = "OPEN" THEN Append(toClient[c], msg) ELSE toClient[c]

ProxyError(text, re) == [src |-> "proxy", msg |-> text, re |-> re]

\* ------------------------------------------------------------------------
\* server.js : wss.on('connection') and the handlers it registers
\* ------------------------------------------------------------------------
TypeOKProxy ==
    /\ apiKey \in BOOLEAN
    /\ clientState \in [Conns -> {"NONE", "OPEN", "CLOSING", "CLOSED"}]
    /\ upState \in [Conns -> {"NULL", "CONNECTING", "OPEN", "CLOSING", "CLOSED"}]
    /\ frames \in 0..MaxFrames

InitProxyVars ==
    /\ apiKey \in BOOLEAN
    /\ clientState = [c \in Conns |-> "NONE"]
    /\ upState = [c \in Conns |-> "NULL"]
    /\ messageBuffer = [c \in Conns |-> <<>>]
    /\ toUpstream = [c \in Conns |-> <<>>]
    /\ toClient = [c \in Conns |-> <<>>]
    /\ clientRecv = [c \in Conns |-> <<>>]
    /\ upRecv = [c \in Conns |-> <<>>]
    /\ frames = 0

\* mutant: the key is never found missing
KeyMissing_Never == FALSE

\* if (!ALIBABA_API_KEY)
KeyMissing == ~apiKey

\* wss.on('connection') (connections are numbered in order of arrival): without a key the client gets an error and is closed
\* and no handler is registered; otherwise the upstream socket is created.
Connection(c) ==
    /\ clientState[c] = "NONE"
    /\ \A d \in Conns : d < c => clientState[d] # "NONE"
    /\ IF KeyMissing
       THEN /\ toClient' = [toClient EXCEPT ![c] =
                   Append(@, ProxyError("Alibaba API key not configured", 0))]
            /\ clientState' = [clientState EXCEPT ![c] = "CLOSING"]
            /\ UNCHANGED upState
       ELSE /\ clientState' = [clientState EXCEPT ![c] = "OPEN"]
            /\ upState' = [upState EXCEPT ![c] = "CONNECTING"]
            /\ UNCHANGED toClient
    /\ UNCHANGED <<apiKey, messageBuffer, toUpstream, clientRecv, upRecv, frames>>

\* mutant: one queue at module level, used by every connection
QueueOf_Shared(c) == 1

\* const messageBuffer = [] inside the connection handler: the queue the
\* handlers of connection c close over is the connection's own
QueueOf(c) == c

\* alibabaWs.send(msg) of the flush loop: msg is the value that was pushed
FlushSend(msg) == [id |-> msg.id, kind |-> FrameKindOf(msg.repr)]

\* messageBuffer.forEach(msg => { if (readyState === OPEN) alibabaWs.send(msg) })
Flush(buf) == [i \in 1..Len(buf) |-> FlushSend(buf[i])]

\* mutant: the queue is left as it is after the flush
Truncate_Keep(buf) == buf

\* messageBuffer.length = 0
Truncate(buf) == <<>>

\* alibabaWs.on('open'): flush messageBuffer in order, then clear it
UpstreamOpen(c) ==
    /\ upState[c] = "CONNECTING"
    /\ upState' = [upState EXCEPT ![c] = "OPEN"]
    /\ toUpstream' = [toUpstream EXCEPT ![c] = @ \o Flush(messageBuffer[QueueOf(c)])]
    /\ messageBuffer' = [messageBuffer EXCEPT ![QueueOf(c)] = Truncate(@)]
    /\ UNCHANGED <<apiKey, clientState, toClient, clientRecv, upRecv, frames>>

\* mutant: every upstream frame goes out through data.toString()
ForwardToClient_AsText(f) ==
    [src |-> "upstream", id |-> f.id, kind |-> FrameKindOf("string")]

\* the frame clientWs.send produces for an upstream frame (isBinary decides)
ForwardToClient(f) ==
    [src |-> "upstream", id |-> f.id,
     kind |-> IF f.kind = "binary" THEN FrameKindOf("Buffer") ELSE FrameKindOf("string")]

\* alibabaWs.on('message', (data, isBinary)): the JSON.parse only feeds the log;
\* the frame is forwarded iff the client socket is OPEN.
UpstreamMessage(c, kind, json) ==
    /\ upState[c] \in {"OPEN", "CLOSING"}
    /\ frames < MaxFrames
    /\ frames' = frames + 1
    /\ LET f == [id |-> Len(upRecv[c]) + 1, kind |-> kind, json |-> json,
                 clientOpen |-> clientState[c] = "OPEN"]
       IN /\ upRecv' = [upRecv EXCEPT ![c] = Append(@,
                   [id |-> f.id, kind |-> f.kind, clientOpen |-> f.clientOpen])]
          /\ toClient' = [toClient EXCEPT ![c] = SendClient(c, ForwardToClient(f))]
    /\ UNCHANGED <<apiKey, clientState, upState, messageBuffer, toUpstream, clientRecv>>

\* alibabaWs.on('error'): tell the client, close it; the socket then closes
UpstreamError(c) ==
    /\ upState[c] \in {"CONNECTING", "OPEN", "CLOSING"}
    /\ toClient' = [toClient EXCEPT ![c] =
            SendClient(c, ProxyError("Alibaba WebSocket error", 0))]
    /\ clientState' = [clientState EXCEPT ![c] = CloseSock(@)]
    /\ upState' = [upState EXCEPT ![c] = "CLOSING"]
    /\ UNCHANGED <<apiKey, messageBuffer, toUpstream, clientRecv, upRecv, frames>>

\* alibabaWs.on('close'): close the client if it is still OPEN
UpstreamClose(c) ==
    /\ upState[c] \in {"CONNECTING", "OPEN", "CLOSING"}
    /\ upState' = [upState EXCEPT ![c] = "CLOSED"]
    /\ clientState' = [clientState EXCEPT ![c] =
            IF @ = "OPEN" THEN CloseSock(@) ELSE @]
    /\ UNCHANGED <<apiKey, messageBuffer, toUpstream, toClient, clientRecv, upRecv, frames>>

\* the value the direct path hands to alibabaWs.send: data.toString('utf8')
DirectSend(f) == [id |-> f.id, kind |-> FrameKindOf("string")]

\* the value pushed to messageBuffer: data as received (a Buffer for either kind)
Buffered(f) == [id |-> f.id, repr |-> "Buffer"]

\* clientWs.on('message', (data)): everything sits inside try { JSON.parse ... }
\* catch { log }, so a frame that is not JSON reaches none of the branches.
ClientMessage(c, kind, json) ==
    /\ clientState[c] \in {"OPEN", "CLOSING"}
    /\ upState[c] # "NULL"
    /\ frames < MaxFrames
    /\ frames' = frames + 1
    /\ LET f == [id |-> Len(clientRecv[c]) + 1, kind |-> kind, json |-> json,
                 up |-> upState[c]]
       IN /\ clientRecv' = [clientRecv EXCEPT ![c] = Append(@, f)]
          /\ IF ~json
             THEN UNCHANGED <<toUpstream, messageBuffer, toClient, clientState>>
             ELSE IF upState[c] = "OPEN"
             THEN /\ toUpstream' = [toUpstream EXCEPT ![c] = Append(@, DirectSend(f))]
                  /\ UNCHANGED <<messageBuffer, toClient, clientState>>
             ELSE IF upState[c] = "CONNECTING"
             THEN /\ messageBuffer' = [messageBuffer EXCEPT ![QueueOf(c)] =
                                            Append(@, Buffered(f))]
                  /\ UNCHANGED <<toUpstream, toClient, clientState>>
             ELSE /\ toClient' = [toClient EXCEPT ![c] =
                         SendClient(c, ProxyError("Alibaba connection failed", f.id))]
                  /\ clientState' = [clientState EXCEPT ![c] = CloseSock(@)]
                  /\ UNCHANGED <<toUpstream, messageBuffer>>
    /\ UNCHANGED <<apiKey, upState, upRecv>>

\* clientWs.on('close'): close the upstream if it is OPEN or CONNECTING
\* (registered only when the connection handler got past the key check)
ClientClose(c) ==
    /\ clientState[c] \in {"OPEN", "CLOSING"}
    /\ clientState' = [clientState EXCEPT ![c] = "CLOSED"]
    /\ upState' = [upState EXCEPT ![c] =
            IF @ \in {"OPEN", "CONNECTING"} THEN CloseSock(@) ELSE @]
    /\ UNCHANGED <<apiKey, messageBuffer, toUpstream, toClient, clientRecv, upRecv, frames>>

NextProxy ==
    \/ \E c \in Conns : Connection(c) /\ UNCHANGED <<svars, tvars, ovars>>
    \/ \E c \in Conns : UpstreamOpen(c) /\ UNCHANGED <<svars, tvars, ovars>>
    \/ \E c \in Conns, k \in Kinds, j \in BOOLEAN :
            UpstreamMessage(c, k, j) /\ UNCHANGED <<svars, tvars, ovars>>
    \/ \E c \in Conns : UpstreamError(c) /\ UNCHANGED <<svars, tvars, ovars>>
    \/ \E c \in Conns : UpstreamClose(c) /\ UNCHANGED <<svars, tvars, ovars>>
    \/ \E c \in Conns, k \in Kinds, j \in BOOLEAN :
            ClientMessage(c, k, j) /\ UNCHANGED <<svars, tvars, ovars>>
    \/ \E c \in Conns : ClientClose(c) /\ UNCHANGED <<svars, tvars, ovars>>

\* ------------------------------------------------------------------------
\* useAlibabaTTS.ts : generate()
\* ------------------------------------------------------------------------
Pending == [st |-> "pending", val |-> <<>>]

\* resolve()/reject(): only the first settlement of a promise takes effect
Settle(p, st, val) == IF p.st = "pending" THEN [st |-> st, val |-> val] ELSE p

\* sendEvent(payload): ws.send(jsonString); a browser WebSocket transmits only
\* while OPEN and drops the data silently while CLOSING or CLOSED
\* mutant: a socket that would transmit in every state
SendEvent_AnyState(log, type) == Append(log, [type |-> type, open |-> TRUE])

SendEvent(log, type) == Append(log, [type |-> type, open |-> ws = "OPEN"])

\* sendInput(): the log after the call (guard and flags are in the callers' step)
SendInputLog(log) ==
    SendEvent(SendEvent(log, "input_text_buffer.append"), "input_text_buffer.commit")

\* data.error?.message || 'WebSocket error'
ErrorMessage(m) == IF m = "" THEN "WebSocket error" ELSE m

\* mutant: sendInput without its inputSent guard and flag
SendInput_FlagNotSet ==
    /\ inputSent' = inputSent
    /\ sent' = SendInputLog(sent)
    /\ finishPending' = TRUE

\* sendInput(): if (inputSent) return; inputSent = true; append; commit;
\* finishPending = true
SendInput ==
    IF inputSent
    THEN UNCHANGED <<inputSent, sent, finishPending>>
    ELSE /\ inputSent' = TRUE
         /\ sent' = SendInputLog(sent)
         /\ finishPending' = TRUE

\* the bytes of the Uint8Array made from the audio frame with arrival number
\* a: one 16-bit sample, each byte tagged <<a, i>>
BytesOf(a) == << <<a, 1>>, <<a, 2>> >>

\* combinedArray: "for (const chunk of audioChunks) combinedArray.set(chunk, offset)"
RECURSIVE Combine(_)
Combine(chunks) ==
    IF chunks = <<>> THEN <<>> ELSE BytesOf(Head(chunks)) \o Combine(Tail(chunks))

\* mutant: the RIFF chunk size counts the whole file
CreateWavBlob_RiffWhole(pcmData, sampleRate) ==
    [size |-> 44 + Len(pcmData),
     riffSize |-> 44 + Len(pcmData), numChannels |-> 1, sampleRate |-> sampleRate,
     byteRate |-> sampleRate * 2, blockAlign |-> 2, bitsPerSample |-> 16,
     dataSize |-> Len(pcmData), data |-> pcmData]

\* mutant: the header is written, the PCM data is not
CreateWavBlob_HeaderOnly(pcmData, sampleRate) ==
    [size |-> 44 + Len(pcmData),
     riffSize |-> 44 + Len(pcmData) - 8, numChannels |-> 1, sampleRate |-> sampleRate,
     byteRate |-> sampleRate * 2, blockAlign |-> 2, bitsPerSample |-> 16,
     dataSize |-> Len(pcmData), data |-> <<>>]

\* createWavBlob(pcmData, sampleRate): 44-byte RIFF/WAVE header, then the data
CreateWavBlob(pcmData, sampleRate) ==
    [size |-> 44 + Len(pcmData),
     riffSize |-> 44 + Len(pcmData) - 8, numChannels |-> 1, sampleRate |-> sampleRate,
     byteRate |-> sampleRate * 2, blockAlign |-> 2, bitsPerSample |-> 16,
     dataSize |-> Len(pcmData), data |-> pcmData]

InitSessionVars ==
    /\ ws = "CONNECTING"
    /\ sessionCreated = FALSE
    /\ inputSent = FALSE
    /\ finishPending = FALSE
    /\ updateWaitTimer = 0
    /\ timers = {}
    /\ timerSeq = 0
    /\ timeout = "armed"
    /\ audioChunks = <<>>
    /\ reads = {}
    /\ sent = <<>>
    /\ promise = Pending
    /\ rxLog = <<>>
    /\ audioRx = <<>>
    /\ fallbackSends = 0

\* clearTimeout(timeout): a timer that has fired stays fired
ClearTimeout(t) == IF t = "armed" THEN "cleared" ELSE t

\* ws.onopen: clearTimeout(timeout)
WsOpen ==
    /\ ws = "CONNECTING"
    /\ ws' = "OPEN"
    /\ timeout' = ClearTimeout(timeout)
    /\ UNCHANGED <<sessionCreated, inputSent, finishPending, updateWaitTimer, timers,
                   timerSeq, audioChunks, reads, sent, promise, rxLog, audioRx,
                   fallbackSends>>

\* mutant: the timer callback closes the socket and does not reject
TimeoutEffect_NoReject ==
    /\ ws' = CloseSock(ws)
    /\ promise' = promise

\* ws.close(); reject(new Error('Connection timeout'))
TimeoutEffect ==
    /\ ws' = CloseSock(ws)
    /\ promise' = Settle(promise, "rejected", "Connection timeout")

\* setTimeout(() => { ws.close(); reject('Connection timeout') }, 30000)
ConnectTimeout ==
    /\ timeout = "armed"
    /\ timeout' = "fired"
    /\ TimeoutEffect
    /\ UNCHANGED <<sessionCreated, inputSent, finishPending, updateWaitTimer, timers,
                   timerSeq, audioChunks, reads, sent, rxLog, audioRx, fallbackSends>>

\* ws.onerror: the connection failed; the close event follows
WsError ==
    /\ ws \in {"CONNECTING", "OPEN"}
    /\ ws' = "CLOSING"
    /\ timeout' = ClearTimeout(timeout)
    /\ promise' = Settle(promise, "rejected", "WebSocket connection error")
    /\ UNCHANGED <<sessionCreated, inputSent, finishPending, updateWaitTimer, timers,
                   timerSeq, audioChunks, reads, sent, rxLog, audioRx, fallbackSends>>

\* if (!sessionCreated && audioChunks.length === 0) reject(...)  -- in ws.onclose
CloseSettles(p) ==
    IF ~sessionCreated /\ Len(audioChunks) = 0
    THEN Settle(p, "rejected", "Connection closed without receiving audio")
    ELSE p

\* ws.onclose
WsClose ==
    /\ ws \in {"OPEN", "CLOSING"}
    /\ ws' = "CLOSED"
    /\ timeout' = ClearTimeout(timeout)
    /\ timers' = timers \ {updateWaitTimer}
    /\ updateWaitTimer' = 0
    /\ promise' = CloseSettles(promise)
    /\ UNCHANGED <<sessionCreated, inputSent, finishPending, timerSeq, audioChunks,
                   reads, sent, rxLog, audioRx, fallbackSends>>

\* ws.onmessage is dispatched only while the socket is OPEN; every frame
\* received gets the next arrival number
Arrival == Len(rxLog) + 1

Receive(type, arg) ==
    /\ ws = "OPEN"
    /\ Len(rxLog) < MaxEvents
    /\ rxLog' = Append(rxLog, [type |-> type, arg |-> arg])
    /\ UNCHANGED <<timeout, fallbackSends>>

\* case 'session.created': send session.update, arm the 500 ms fallback timer
OnSessionCreated ==
    /\ Receive("session.created", "")
    /\ sessionCreated' = TRUE
    /\ sent' = SendEvent(sent, "session.update")
    /\ timerSeq' = timerSeq + 1
    /\ timers' = timers \cup {timerSeq + 1}
    /\ updateWaitTimer' = timerSeq + 1
    /\ UNCHANGED <<ws, inputSent, finishPending, audioChunks, reads, promise, audioRx>>

\* case 'session.updated': clear the timer, sendInput() unless already sent
OnSessionUpdated ==
    /\ Receive("session.updated", "")
    /\ timers' = timers \ {updateWaitTimer}
    /\ updateWaitTimer' = 0
    /\ IF ~inputSent
       THEN SendInput
       ELSE UNCHANGED <<inputSent, sent, finishPending>>
    /\ UNCHANGED <<ws, sessionCreated, timerSeq, audioChunks, reads, promise, audioRx>>

\* case 'response.audio.delta': push the decoded bytes when data.delta is set
OnAudioDelta(hasDelta) ==
    /\ Receive("response.audio.delta", IF hasDelta THEN "delta" ELSE "")
    /\ IF hasDelta
       THEN /\ audioChunks' = Append(audioChunks, Arrival)
            /\ audioRx' = Append(audioRx, Arrival)
       ELSE UNCHANGED <<audioChunks, audioRx>>
    /\ UNCHANGED <<ws, sessionCreated, inputSent, finishPending, updateWaitTimer,
                   timers, timerSeq, reads, sent, promise>>

\* mutant: session.finish is sent and finishPending stays set
SendFinish_FlagKept ==
    /\ finishPending' = finishPending
    /\ sent' = SendEvent(sent, "session.finish")

\* finishPending = false; sendEvent({ type: 'session.finish' })
SendFinish ==
    /\ finishPending' = FALSE
    /\ sent' = SendEvent(sent, "session.finish")

\* case 'response.done': send session.finish once finishPending
OnResponseDone ==
    /\ Receive("response.done", "")
    /\ IF finishPending
       THEN SendFinish
       ELSE UNCHANGED <<finishPending, sent>>
    /\ UNCHANGED <<ws, sessionCreated, inputSent, updateWaitTimer, timers, timerSeq,
                   audioChunks, reads, promise, audioRx>>

\* case 'session.finished': resolve with the WAV of the chunks, or reject; close
OnSessionFinished ==
    /\ Receive("session.finished", "")
    /\ promise' = IF Len(audioChunks) > 0
                  THEN Settle(promise, "resolved",
                              CreateWavBlob(Combine(audioChunks), 24000))
                  ELSE Settle(promise, "rejected", "No audio data received")
    /\ ws' = CloseSock(ws)
    /\ UNCHANGED <<sessionCreated, inputSent, finishPending, updateWaitTimer, timers,
                   timerSeq, audioChunks, reads, sent, audioRx>>

\* mutant: the error case without its ws.close()
ErrorEffect_NoClose(m) ==
    /\ promise' = Settle(promise, "rejected", ErrorMessage(m))
    /\ ws' = ws

\* case 'error': reject(new Error(message)); ws.close()
ErrorEffect(m) ==
    /\ promise' = Settle(promise, "rejected", ErrorMessage(m))
    /\ ws' = CloseSock(ws)

OnErrorEvent(m) ==
    /\ Receive("error", m)
    /\ ErrorEffect(m)
    /\ UNCHANGED <<sessionCreated, inputSent, finishPending, updateWaitTimer, timers,
                   timerSeq, audioChunks, reads, sent, audioRx>>

\* a Blob frame: start a FileReader; the bytes are pushed by its onload
OnBinary ==
    /\ Receive("binary", "")
    /\ reads' = reads \cup {Arrival}
    /\ audioRx' = Append(audioRx, Arrival)
    /\ UNCHANGED <<ws, sessionCreated, inputSent, finishPending, updateWaitTimer,
                   timers, timerSeq, audioChunks, sent, promise>>

\* a text frame that is not JSON (logged) or has a type no case handles
OnOther ==
    /\ Receive("other", "")
    /\ UNCHANGED <<ws, sessionCreated, inputSent, finishPending, updateWaitTimer,
                   timers, timerSeq, audioChunks, reads, sent, promise, audioRx>>

\* reader.onload: push the bytes of the Blob that was read
ReaderLoad ==
    \E b \in reads :
        /\ reads' = reads \ {b}
        /\ audioChunks' = Append(audioChunks, b)
        /\ UNCHANGED <<ws, sessionCreated, inputSent, finishPending, updateWaitTimer,
                       timers, timerSeq, timeout, sent, promise, rxLog, audioRx,
                       fallbackSends>>

\* reader.onerror: logged, the Blob is dropped
ReaderError ==
    \E b \in reads :
        /\ reads' = reads \ {b}
        /\ UNCHANGED <<ws, sessionCreated, inputSent, finishPending, updateWaitTimer,
                       timers, timerSeq, timeout, audioChunks, sent, promise, rxLog,
                       audioRx, fallbackSends>>

\* mutant: the timer callback never sends
FallbackDue_Never == FALSE

\* if (!inputSent)  -- the test of the timer callback
FallbackDue == ~inputSent

\* the callback given to window.setTimeout(..., 500):
\* if (!inputSent) sendInput()
FallbackTimer ==
    \E t \in timers :
        /\ timers' = timers \ {t}
        /\ IF FallbackDue
           THEN /\ SendInput
                /\ fallbackSends' = fallbackSends + 1
           ELSE UNCHANGED <<inputSent, sent, finishPending, fallbackSends>>
        /\ UNCHANGED <<ws, sessionCreated, updateWaitTimer, timerSeq, timeout,
                       audioChunks, reads, promise, rxLog, audioRx>>

NextSession ==
    \/ WsOpen /\ UNCHANGED <<pvars, tvars, ovars>>
    \/ ConnectTimeout /\ UNCHANGED <<pvars, tvars, ovars>>
    \/ WsError /\ UNCHANGED <<pvars, tvars, ovars>>
    \/ WsClose /\ UNCHANGED <<pvars, tvars, ovars>>
    \/ OnSessionCreated /\ UNCHANGED <<pvars, tvars, ovars>>
    \/ OnSessionUpdated /\ UNCHANGED <<pvars, tvars, ovars>>
    \/ \E d \in BOOLEAN : OnAudioDelta(d) /\ UNCHANGED <<pvars, tvars, ovars>>
    \/ OnResponseDone /\ UNCHANGED <<pvars, tvars, ovars>>
    \/ OnSessionFinished /\ UNCHANGED <<pvars, tvars, ovars>>
    \/ \E m \in {"", "quota exceeded"} : OnErrorEvent(m) /\ UNCHANGED <<pvars, tvars, ovars>>
    \/ OnBinary /\ UNCHANGED <<pvars, tvars, ovars>>
    \/ OnOther /\ UNCHANGED <<pvars, tvars, ovars>>
    \/ ReaderLoad /\ UNCHANGED <<pvars, tvars, ovars>>
    \/ ReaderError /\ UNCHANGED <<pvars, tvars, ovars>>
    \/ FallbackTimer /\ UNCHANGED <<pvars, tvars, ovars>>

\* ------------------------------------------------------------------------
\* useStreamingTTS.ts : generateStreaming()  (both definitions)
\* ------------------------------------------------------------------------
BytesPerSample == 2
SamplesPerChunk == 4800
MinChunkSize == SamplesPerChunk * BytesPerSample
SampleRate == 48000
\* the rates a browser gives an AudioContext created without options
\* (definition 1); definition 2 asks for { sampleRate: 48000 }
CtxRates == {44100, SampleRate}
\* time is counted in ticks of which both rates have a whole number per sample
TicksPerSecond == 147 * SampleRate
\* the 0.1 s of "audioContext.currentTime + 0.1", in ticks
LeadTicks == TicksPerSecond \div 10

\* sizes of the Uint8Array values reader.read() yields, and clock advances
ChunkSizes == {1, SamplesPerChunk, MinChunkSize - 1, MinChunkSize, MinChunkSize + 1}
ClockSteps == {LeadTicks \div 2, TicksPerSecond \div 2}

\* byte sequences as sequences of runs <<first, last>> of stream positions
RECURSIVE RunsLen(_)
RunsLen(rs) ==
    IF rs = <<>> THEN 0 ELSE (Head(rs)[2] - Head(rs)[1] + 1) + RunsLen(Tail(rs))

\* the first n bytes of rs
RECURSIVE TakeBytes(_, _)
TakeBytes(rs, n) ==
    IF n <= 0 \/ rs = <<>> THEN <<>>
    ELSE LET h == Head(rs)
             l == h[2] - h[1] + 1
         IN IF l <= n THEN <<h>> \o TakeBytes(Tail(rs), n - l)
            ELSE << <<h[1], h[1] + n - 1>> >>

\* buffer.slice(n)
RECURSIVE SliceBytes(_, _)
SliceBytes(rs, n) ==
    IF n <= 0 \/ rs = <<>> THEN rs
    ELSE LET h == Head(rs)
             l == h[2] - h[1] + 1
         IN IF l <= n THEN SliceBytes(Tail(rs), n - l)
            ELSE << <<h[1] + n, h[2]>> >> \o Tail(rs)

\* newBuffer.set(buffer, 0); newBuffer.set(value, buffer.length)
Accumulate(buf, first, n) ==
    IF n = 0 THEN buf ELSE Append(buf, <<first, first + n - 1>>)

\* mutant: four bytes are taken for one sample
AvailableSamples_FourBytes(buf) == RunsLen(buf) \div (2 * BytesPerSample)

\* Math.floor(buffer.length / bytesPerSample)
AvailableSamples(buf) == RunsLen(buf) \div BytesPerSample

\* mutant: the first block is started at the current time, with no lead
ScheduleTime_NoLead(r, st, now) ==
    LET s0 == IF st = 0 THEN now ELSE st
    IN IF r = 1 THEN (IF s0 >= now THEN s0 ELSE now) ELSE s0

\* "if (startTime === 0) startTime = currentTime + 0.1" then the time passed to
\* source.start: definition 1 clamps with Math.max(startTime, currentTime),
\* definition 2 passes startTime as it is
ScheduleTime(r, st, now) ==
    LET s0 == IF st = 0 THEN now + LeadTicks ELSE st
    IN IF r = 1 THEN (IF s0 >= now THEN s0 ELSE now) ELSE s0

\* the rate given to createBuffer: audioContext.sampleRate in definition 1,
\* 48000 in definition 2
BlockRate == IF rev = 1 THEN ctxRate ELSE SampleRate

\* audioBuffer.duration of n samples, and "totalSamples / rate", in ticks
\* mutant: every block timed as if it were 48000 Hz audio
Duration_Fixed48k(n) == n * (TicksPerSecond \div SampleRate)

Duration(n) == n * (TicksPerSecond \div BlockRate)

\* mutant: the progress estimate without its cap
RoughProgress_Uncapped(n) == n * 5

\* Math.min(totalChunks * 5, 95)
RoughProgress(n) == IF n * 5 < 95 THEN n * 5 ELSE 95

StreamLocals(at) ==
    /\ rev \in {1, 2}
    /\ ctxRate \in (IF rev = 1 THEN CtxRates ELSE {SampleRate})
    /\ pc = at
    /\ buffer = <<>>
    /\ received = 0
    /\ startTime = 0
    /\ clock = 0
    /\ blocks = <<>>
    /\ totalChunks = 0
    /\ totalSamples = 0
    /\ progress = 0
    /\ chunkCalls = <<>>
    /\ outcome = [kind |-> "none", val |-> 0]
    /\ threw = FALSE
    /\ isStreaming = TRUE
    /\ nReads = 0
    /\ nTicks = 0

\* mutant: the catch reports the error and leaves isStreaming set
Catch_StillStreaming ==
    /\ isStreaming' = isStreaming
    /\ outcome' = [kind |-> "error", val |-> 0]

\* catch (error): setState(isStreaming: false); onError?.(error)
Catch ==
    /\ isStreaming' = FALSE
    /\ outcome' = [kind |-> "error", val |-> 0]

InitStreamVars == StreamLocals("reading")

\* time passes while the loop awaits reader.read()
ClockAdvance(d) ==
    /\ pc = "reading"
    /\ nTicks < MaxTicks
    /\ nTicks' = nTicks + 1
    /\ clock' = clock + d
    /\ UNCHANGED <<rev, ctxRate, pc, buffer, received, startTime, blocks, totalChunks,
                   totalSamples, progress, chunkCalls, outcome, threw, isStreaming,
                   nReads>>

\* one decode-and-schedule pass over buf; thr tells which callback throws
\* ("none", "onChunk", "onProgress"); the block is started before the callbacks
\* run and the buffer is sliced only when none of them throws
Block(buf, n, final) ==
    [start |-> ScheduleTime(rev, startTime, clock), now |-> clock, samples |-> n,
     bytes |-> TakeBytes(buf, n * BytesPerSample), final |-> final]

\* one turn of "while (true)": a value arrives, is accumulated, and the inner
\* "while (buffer.length >= minChunkSize)" runs (one pass leaves 0 or 1 byte;
\* a throwing callback leaves through the catch's break)
ReadChunkUpTo(n, thr, max) ==
    /\ pc = "reading"
    /\ nReads < max
    /\ nReads' = nReads + 1
    /\ received' = received + n
    /\ LET buf == Accumulate(buffer, received + 1, n)
           k == AvailableSamples(buf)
           b == Block(buf, k, FALSE)
       IN IF RunsLen(buf) >= MinChunkSize
          THEN /\ blocks' = Append(blocks, b)
               /\ startTime' = b.start + Duration(k)
               /\ totalChunks' = totalChunks + 1
               /\ totalSamples' = totalSamples + k
               /\ chunkCalls' = Append(chunkCalls, totalChunks + 1)
               /\ IF thr = "none"
                  THEN /\ progress' = RoughProgress(totalChunks + 1)
                       /\ buffer' = SliceBytes(buf, k * BytesPerSample)
                       /\ threw' = threw
                  ELSE /\ progress' = progress
                       /\ buffer' = buf
                       /\ threw' = TRUE
          ELSE /\ thr = "none"
               /\ buffer' = buf
               /\ UNCHANGED <<blocks, startTime, totalChunks, totalSamples,
                              chunkCalls, progress, threw>>
    /\ UNCHANGED <<rev, ctxRate, pc, clock, outcome, isStreaming, nTicks>>

ReadChunk(n, thr) == ReadChunkUpTo(n, thr, MaxReads)

\* a long stream: whole chunks of minChunkSize bytes, ended by a short tail
FullChunk == buffer = <<>> /\ ReadChunkUpTo(MinChunkSize, "none", MaxChunks)

TailChunk(n) == buffer = <<>> /\ ReadChunkUpTo(n, "none", MaxChunks)

\* reader.read() rejects: the outer catch reports the error
ReadFails ==
    /\ pc = "reading"
    /\ pc' = "failed"
    /\ Catch
    /\ UNCHANGED <<rev, ctxRate, buffer, received, startTime, clock, blocks, totalChunks,
                   totalSamples, progress, chunkCalls, threw, nReads, nTicks>>

\* done === true: definition 1 decodes what is left when it holds a sample,
\* definition 2 goes straight to the completion; then progress 100, onComplete
StreamEnd(thr) ==
    /\ pc = "reading"
    /\ LET k == AvailableSamples(buffer)
           b == Block(buffer, k, TRUE)
           flush == rev = 1 /\ RunsLen(buffer) >= BytesPerSample
       IN /\ IF flush
             THEN /\ blocks' = Append(blocks, b)
                  /\ startTime' = b.start + Duration(k)
                  /\ totalChunks' = totalChunks + 1
                  /\ totalSamples' = totalSamples + k
                  /\ chunkCalls' = Append(chunkCalls, totalChunks + 1)
             ELSE /\ thr = "none"
                  /\ UNCHANGED <<blocks, startTime, totalChunks, totalSamples,
                                 chunkCalls>>
          /\ IF thr = "none"
             THEN /\ pc' = "done"
                  /\ progress' = 100
                  /\ isStreaming' = FALSE
                  /\ outcome' = [kind |-> "complete",
                                 val |-> Duration(IF flush THEN totalSamples + k
                                                  ELSE totalSamples)]
             ELSE /\ pc' = "failed"
                  /\ progress' = progress
                  /\ Catch
    /\ UNCHANGED <<rev, ctxRate, buffer, received, clock, threw, nReads, nTicks>>

NextStream ==
    \/ \E d \in ClockSteps : ClockAdvance(d) /\ UNCHANGED <<pvars, svars, ovars>>
    \/ \E n \in ChunkSizes, thr \in {"none", "onChunk", "onProgress"} :
            ReadChunk(n, thr) /\ UNCHANGED <<pvars, svars, ovars>>
    \/ ReadFails /\ UNCHANGED <<pvars, svars, ovars>>
    \/ \E thr \in {"none", "onChunk"} : StreamEnd(thr) /\ UNCHANGED <<pvars, svars, ovars>>

\* ------------------------------------------------------------------------
\* server.js, app.post('/api/tts/stream'), and the fetch of generateStreaming
\* ------------------------------------------------------------------------
Statuses == {200, 404, 500, 503}

Bodies == {"", "voice not found"}

\* response.ok
Ok(status) == status >= 200 /\ status <= 299

\* response.statusText: the reason phrase of the status line
StatusText(status) ==
    CASE status = 200 -> "OK"
      [] status = 404 -> "Not Found"
      [] status = 500 -> "Internal Server Error"
      [] OTHER -> "Service Unavailable"

NoResponse == [status |-> 0, body |-> "", audio |-> FALSE]

InitHttpVars ==
    /\ httpPc \in {"idle", "forwarding"}
    /\ upstream = NoResponse
    /\ relayed = NoResponse
    /\ errorMsg = <<>>

\* the upstream answers the proxy's fetch: audio when 2xx, a text otherwise
UpstreamAnswers(status, body) ==
    /\ httpPc = "forwarding"
    /\ httpPc' = "answered"
    /\ upstream' = IF Ok(status)
                   THEN [status |-> status, body |-> "", audio |-> TRUE]
                   ELSE [status |-> status, body |-> body, audio |-> FALSE]
    /\ UNCHANGED <<relayed, errorMsg, tvars>>

\* mutant: every upstream error answered as the proxy's own failure
RelayError_Generic(response) ==
    [status |-> 500, body |-> "Streaming proxy failed to reach backend container",
     audio |-> FALSE]

\* if (!response.ok) return res.status(response.status).send(errorText)
RelayError(response) ==
    [status |-> response.status, body |-> response.body, audio |-> FALSE]

\* the rest of the route after the fetch: the error branch, or the body piped
ProxyRelays ==
    /\ httpPc = "answered"
    /\ httpPc' = "relayed"
    /\ relayed' = IF ~Ok(upstream.status)
                  THEN RelayError(upstream)
                  ELSE [status |-> upstream.status, body |-> "", audio |-> upstream.audio]
    /\ UNCHANGED <<upstream, errorMsg, tvars>>

\* the proxy's fetch rejects: the catch answers 500 with its own JSON
UpstreamUnreachable ==
    /\ httpPc = "forwarding"
    /\ httpPc' = "relayed"
    /\ relayed' = [status |-> 500,
                   body |-> "Streaming proxy failed to reach backend container",
                   audio |-> FALSE]
    /\ UNCHANGED <<upstream, errorMsg, tvars>>

\* the message built at !response.ok (definition 1: status, statusText and
\* the body when not empty; definition 2: status and body)
HttpErrorMsg(response) ==
    IF rev = 1
    THEN <<"HTTP ", ToString(response.status), ": ", StatusText(response.status)>>
         \o (IF response.body # "" THEN <<" - ", response.body>> ELSE <<>>)
    ELSE <<"HTTP ", ToString(response.status), ": ", response.body>>

\* the hook's fetch resolves: !response.ok throws into the catch (onError),
\* otherwise the read loop starts
HookReceives ==
    /\ httpPc = "relayed"
    /\ pc = "fetching"
    /\ httpPc' = "received"
    /\ IF ~Ok(relayed.status)
       THEN /\ errorMsg' = HttpErrorMsg(relayed)
            /\ pc' = "failed"
            /\ Catch
       ELSE /\ errorMsg' = <<>>
            /\ pc' = "reading"
            /\ UNCHANGED <<outcome, isStreaming>>
    /\ UNCHANGED <<upstream, relayed, rev, ctxRate, buffer, received, startTime, clock,
                   blocks, totalChunks, totalSamples, progress, chunkCalls, threw,
                   nReads, nTicks>>

NextHttp ==
    \/ \E status \in Statuses, body \in Bodies :
            UpstreamAnswers(status, body) /\ UNCHANGED <<pvars, svars, wvars, evars, yvars, dvars>>
    \/ ProxyRelays /\ UNCHANGED <<pvars, svars, wvars, evars, yvars, dvars>>
    \/ UpstreamUnreachable /\ UNCHANGED <<pvars, svars, wvars, evars, yvars, dvars>>
    \/ HookReceives /\ UNCHANGED <<pvars, svars, wvars, evars, yvars, dvars>>
    \/ \E d \in ClockSteps : ClockAdvance(d) /\ UNCHANGED <<pvars, svars, ovars>>
    \/ \E n \in ChunkSizes, thr \in {"none", "onChunk", "onProgress"} :
            ReadChunk(n, thr) /\ UNCHANGED <<pvars, svars, ovars>>
    \/ ReadFails /\ UNCHANGED <<pvars, svars, ovars>>
    \/ \E thr \in {"none", "onChunk"} : StreamEnd(thr) /\ UNCHANGED <<pvars, svars, ovars>>

\* ------------------------------------------------------------------------
\* useAlibabaTTS.ts, createWavBlob on its own
\* ------------------------------------------------------------------------
WavRates == {24000, SampleRate}

NoWav == [size |-> 0]

\* a Uint8Array of n bytes
PcmOf(n) == [i \in 1..n |-> <<0, i>>]

InitWavVars ==
    /\ pcmLen \in 0..MaxPcm
    /\ pcmRate \in WavRates
    /\ wav = NoWav

MakeWav ==
    /\ wav = NoWav
    /\ wav' = CreateWavBlob(PcmOf(pcmLen), pcmRate)
    /\ UNCHANGED <<pcmLen, pcmRate>>

NextWav == MakeWav /\ UNCHANGED <<pvars, svars, tvars, hvars, evars, yvars, dvars>>

\* ------------------------------------------------------------------------
\* useAlibabaTTS.ts, sendEvent on its own: a string is a sequence of
\* characters, a word without punctuation counting as one character
\* ------------------------------------------------------------------------
TextChars == {"a", ",", "{", ":", "\""}

RECURSIVE SeqsUpTo(_, _)
SeqsUpTo(S, n) ==
    IF n = 0 THEN {<<>>}
    ELSE LET shorter == SeqsUpTo(S, n - 1)
         IN shorter \cup {Append(t, c) : t \in shorter, c \in S}

Texts == SeqsUpTo(TextChars, MaxText)

StrVal(chars) == [kind |-> "str", chars |-> chars, fields |-> <<>>]

NumVal(n) == [kind |-> "num", chars |-> <<n>>, fields |-> <<>>]

ObjVal(fields) == [kind |-> "obj", chars |-> <<>>, fields |-> fields]

Field(k, v) == [k |-> k, v |-> v]

\* the object literal of the session.created handler
SessionConfig(voice) ==
    << Field("voice", StrVal(voice)),
       Field("mode", StrVal(<<"server_commit">>)),
       Field("response_format", StrVal(<<"pcm">>)),
       Field("sample_rate", NumVal("24000")) >>

\* the four object literals passed to sendEvent
Payloads ==
    {<< Field("type", StrVal(<<"session.update">>)),
        Field("session", ObjVal(SessionConfig(voice))) >> : voice \in {<<"Cherry">>}}
    \cup {<< Field("type", StrVal(<<"input_text_buffer.append">>)),
             Field("text", StrVal(text)) >> : text \in Texts}
    \cup {<< Field("type", StrVal(<<"input_text_buffer.commit">>)) >>,
          << Field("type", StrVal(<<"session.finish">>)) >>}

HasKey(fields, k) == \E i \in 1..Len(fields) : fields[i].k = k

\* { ...obj, ...more }: a key already present keeps its place and takes the
\* new value, a new key goes to the end
RECURSIVE Spread(_, _)
Spread(obj, more) ==
    IF more = <<>> THEN obj
    ELSE LET f == Head(more)
             merged == IF HasKey(obj, f.k)
                       THEN [i \in 1..Len(obj) |->
                               IF obj[i].k = f.k THEN f ELSE obj[i]]
                       ELSE Append(obj, f)
         IN Spread(merged, Tail(more))

EventId == Field("event_id", StrVal(<<"event_1">>))

\* mutant: the payload spread first, event_id written after it
FullPayload_IdLast(payload) == Spread(payload, <<EventId>>)

\* const fullPayload = { event_id: eventId, ...payload }
FullPayload(payload) == Spread(<<EventId>>, payload)

\* JSON.stringify of a string: quotes and backslashes escaped
RECURSIVE Escape(_)
Escape(chars) ==
    IF chars = <<>> THEN <<>>
    ELSE (IF Head(chars) \in {"\"", "\\"} THEN <<"\\", Head(chars)>> ELSE <<Head(chars)>>)
         \o Escape(Tail(chars))

Quote(chars) == <<"\"">> \o Escape(chars) \o <<"\"">>

RECURSIVE JsonValue(_)
RECURSIVE JsonFields(_)
\* JSON.stringify of a value
JsonValue(v) ==
    CASE v.kind = "str" -> Quote(v.chars)
      [] v.kind = "num" -> v.chars
      [] OTHER -> <<"{">> \o JsonFields(v.fields) \o <<"}">>

JsonFields(fields) ==
    IF fields = <<>> THEN <<>>
    ELSE Quote(<<Head(fields).k>>) \o <<":">> \o JsonValue(Head(fields).v)
         \o (IF Len(fields) > 1 THEN <<",">> \o JsonFields(Tail(fields)) ELSE <<>>)

\* s.replace(/ab/g, out)
RECURSIVE ReplacePair(_, _, _, _)
ReplacePair(str, a, b, out) ==
    IF Len(str) < 2 THEN str
    ELSE IF str[1] = a /\ str[2] = b
         THEN out \o ReplacePair(SubSeq(str, 3, Len(str)), a, b, out)
         ELSE <<str[1]>> \o ReplacePair(Tail(str), a, b, out)

\* the four replace calls of sendEvent, in their order
Spaced(str) ==
    LET s1 == ReplacePair(str, ",", "\"", <<",", " ", "\"">>)
        s2 == ReplacePair(s1, "\"", ":", <<"\"", ":", " ">>)
        s3 == ReplacePair(s2, ",", "{", <<",", " ", "{">>)
    IN ReplacePair(s3, ",", "[", <<",", " ", "[">>)

\* the string sendEvent hands to ws.send
JsonString(payload) == Spaced(JsonValue(ObjVal(FullPayload(payload))))

InitEventVars ==
    /\ evPayload \in Payloads
    /\ evJson = <<>>

SendEventText ==
    /\ evJson = <<>>
    /\ evJson' = JsonString(evPayload)
    /\ UNCHANGED evPayload

NextEvent == SendEventText /\ UNCHANGED <<pvars, svars, tvars, hvars, wvars, yvars, dvars>>

\* ------------------------------------------------------------------------
\* useHistory.ts, useHistory(): an item is its id, the ids are 1, 2, ... in
\* the order of the addItem calls
\* ------------------------------------------------------------------------
MAX_HISTORY == 5

\* list.slice(0, n)
Slice(list, n) == SubSeq(list, 1, IF Len(list) < n THEN Len(list) ELSE n)

\* list.filter(h => h.id !== id)
RECURSIVE Without(_, _)
Without(list, id) ==
    IF list = <<>> THEN <<>>
    ELSE (IF Head(list) = id THEN <<>> ELSE <<Head(list)>>) \o Without(Tail(list), id)

InitHistoryVars ==
    /\ history = <<>>
    /\ closure = <<>>
    /\ stored = <<>>
    /\ ideal = <<>>
    /\ nAdded = 0

\* the component renders again: the callbacks handed out from now on close
\* over the current state
Render ==
    /\ closure # history
    /\ closure' = history
    /\ UNCHANGED <<history, stored, ideal, nAdded>>

\* addItem(item): [item, ...history].slice(0, MAX_HISTORY), setHistory, set
AddItem ==
    /\ nAdded < MaxAdds
    /\ LET item == nAdded + 1
           newHistory == Slice(<<item>> \o closure, MAX_HISTORY)
       IN /\ history' = newHistory
          /\ stored' = newHistory
          /\ ideal' = Slice(<<item>> \o ideal, MAX_HISTORY)
          /\ nAdded' = item
    /\ UNCHANGED closure

\* removeItem(id): history.filter(h => h.id !== id), setHistory, set
RemoveItem(id) ==
    /\ LET newHistory == Without(closure, id)
       IN /\ history' = newHistory
          /\ stored' = newHistory
    /\ ideal' = Without(ideal, id)
    /\ UNCHANGED <<closure, nAdded>>

\* clearHistory(): setHistory([]), set(DB_KEY, [])
ClearHistory ==
    /\ history' = <<>>
    /\ stored' = <<>>
    /\ ideal' = <<>>
    /\ UNCHANGED <<closure, nAdded>>

NextHistory ==
    \/ Render /\ UNCHANGED <<pvars, svars, tvars, hvars, wvars, evars, dvars>>
    \/ AddItem /\ UNCHANGED <<pvars, svars, tvars, hvars, wvars, evars, dvars>>
    \/ \E id \in 1..nAdded :
            RemoveItem(id) /\ UNCHANGED <<pvars, svars, tvars, hvars, wvars, evars, dvars>>
    \/ ClearHistory /\ UNCHANGED <<pvars, svars, tvars, hvars, wvars, evars, dvars>>

\* ------------------------------------------------------------------------
\* useStreamingTTS.ts, the body of the PCM16 to Float32 loop on its own
\* ------------------------------------------------------------------------
Bytes == 0..255

\* the value of a slot of the Float32Array no pass has written
NotDecoded == 65536

\* b << 8 of a byte
ShiftLeft8(b) == b * 256

\* lo | hi8, where hi8 has its low 8 bits clear and lo is a byte
BitOr(lo, hi8) == hi8 + lo

\* mutant: the sample is left unsigned
Signed_Unsigned(sample) == sample

\* sample >= 32768 ? sample - 65536 : sample
Signed(sample) == IF sample >= 32768 THEN sample - 65536 ELSE sample

\* the numerator of float32Array[i] = signedSample / 32768.0 (every integer
\* from -32768 to 32767 over 32768 is a float32 value, so the store is exact)
Decode(lo, hi) == Signed(BitOr(lo, ShiftLeft8(hi)))

InitDecodeVars ==
    /\ pcmLo \in Bytes
    /\ pcmHi \in Bytes
    /\ decoded = NotDecoded

DecodeSample ==
    /\ decoded = NotDecoded
    /\ decoded' = Decode(pcmLo, pcmHi)
    /\ UNCHANGED <<pcmLo, pcmHi>>

NextDecode == DecodeSample /\ UNCHANGED <<pvars, svars, tvars, hvars, wvars, evars, yvars>>

\* ------------------------------------------------------------------------
\* Specifications
\* ------------------------------------------------------------------------
\* the parts that a specification does not run stay in one fixed initial state
IdleStream == InitStreamVars /\ rev = 1 /\ ctxRate = SampleRate

IdleHttp == InitHttpVars /\ httpPc = "idle"

IdleWav == pcmLen = 0 /\ pcmRate = 24000 /\ wav = NoWav

IdleEvent == evPayload = <<>> /\ evJson = <<>>

IdleHistory == InitHistoryVars

IdleDecode == pcmLo = 0 /\ pcmHi = 0 /\ decoded = NotDecoded

IdleOther == IdleHttp /\ IdleWav /\ IdleEvent /\ IdleHistory /\ IdleDecode

InitProxy == InitProxyVars /\ InitSessionVars /\ IdleStream /\ IdleOther

SpecProxy == InitProxy /\ [][NextProxy]_vars

\* a socket on which close() was called does close: the ws library ends the
\* closing handshake itself when the peer does not answer
ClosingCompletes ==
    \E c \in Conns :
        \/ clientState[c] = "CLOSING" /\ ClientClose(c)
        \/ upState[c] = "CLOSING" /\ UpstreamClose(c)

SpecProxyFair ==
    SpecProxy /\ WF_vars(ClosingCompletes /\ UNCHANGED <<svars, tvars, ovars>>)

InitSession == InitProxyVars /\ apiKey /\ InitSessionVars /\ IdleStream /\ IdleOther

SpecSession == InitSession /\ [][NextSession]_vars

\* a timer armed with window.setTimeout and not cleared does fire
SpecSessionFair ==
    SpecSession /\ WF_vars(FallbackTimer /\ UNCHANGED <<pvars, tvars, ovars>>)

InitStream == InitProxyVars /\ apiKey /\ InitSessionVars /\ InitStreamVars /\ IdleOther

SpecStream == InitStream /\ [][NextStream]_vars

NextLongStream ==
    \/ FullChunk /\ UNCHANGED <<pvars, svars, ovars>>
    \/ \E n \in {1, SamplesPerChunk} : TailChunk(n) /\ UNCHANGED <<pvars, svars, ovars>>
    \/ ReadFails /\ UNCHANGED <<pvars, svars, ovars>>
    \/ \E thr \in {"none", "onChunk"} : StreamEnd(thr) /\ UNCHANGED <<pvars, svars, ovars>>

SpecLongStream == InitStream /\ [][NextLongStream]_vars

InitHttp ==
    /\ InitProxyVars /\ apiKey /\ InitSessionVars
    /\ StreamLocals("fetching")
    /\ InitHttpVars /\ httpPc = "forwarding"
    /\ IdleWav /\ IdleEvent /\ IdleHistory /\ IdleDecode

SpecHttp == InitHttp /\ [][NextHttp]_vars

InitWav ==
    /\ InitProxyVars /\ apiKey /\ InitSessionVars /\ IdleStream
    /\ IdleHttp /\ InitWavVars /\ IdleEvent /\ IdleHistory /\ IdleDecode

SpecWav == InitWav /\ [][NextWav]_vars

InitEvent ==
    /\ InitProxyVars /\ apiKey /\ InitSessionVars /\ IdleStream
    /\ IdleHttp /\ IdleWav /\ InitEventVars /\ IdleHistory /\ IdleDecode

SpecEvent == InitEvent /\ [][NextEvent]_vars

InitHistory ==
    /\ InitProxyVars /\ apiKey /\ InitSessionVars /\ IdleStream
    /\ IdleHttp /\ IdleWav /\ IdleEvent /\ InitHistoryVars /\ IdleDecode

SpecHistory == InitHistory /\ [][NextHistory]_vars

InitDecode ==
    /\ InitProxyVars /\ apiKey /\ InitSessionVars /\ IdleStream
    /\ IdleHttp /\ IdleWav /\ IdleEvent /\ IdleHistory /\ InitDecodeVars

SpecDecode == InitDecode /\ [][NextDecode]_vars

\* ========================================================================
\* Properties
\* ========================================================================
Ids(s) == [i \in 1..Len(s) |-> s[i].id]

ReceivedWhileConnecting(r) == r.up = "CONNECTING"
ParsedWhileConnecting(r) == r.up = "CONNECTING" /\ r.json
IsForwarded(m) == m.src = "upstream"
ClientWasOpen(r) == r.clientOpen
IdKinds(s) == [i \in 1..Len(s) |-> [id |-> s[i].id, kind |-> s[i].kind]]

\* C1: for every connection whose upstream has opened, the frames received
\* from the client while the upstream was CONNECTING head the sequence of
\* frames sent to upstream, in the order received (so all of them precede
\* every frame received after the open).
C1_PendingFlushedFirst ==
    \A c \in Conns :
        upState[c] = "OPEN" =>
            IsPrefix(Ids(SelectSeq(clientRecv[c], ReceivedWhileConnecting)),
                     Ids(toUpstream[c]))

\* The order of the flush itself: the frames that parsed as JSON while
\* CONNECTING are flushed first and in order (what is left of C1 once the
\* frames the handler drops are set aside).
ParsedPendingFlushedFirst ==
    \A c \in Conns :
        upState[c] = "OPEN" =>
            IsPrefix(Ids(SelectSeq(clientRecv[c], ParsedWhileConnecting)),
                     Ids(toUpstream[c]))

\* C7: every frame sent to upstream has the frame kind it was received with.
C7_FrameKindPreserved ==
    \A c \in Conns :
        \A i \in 1..Len(toUpstream[c]) :
            toUpstream[c][i].kind = clientRecv[c][toUpstream[c][i].id].kind

\* C8: every frame received from the client was forwarded to upstream, sits in
\* the pending queue, or was answered with an error.
C8_NoClientFrameDiscarded ==
    \A c \in Conns :
        \A i \in 1..Len(clientRecv[c]) :
            \/ \E j \in 1..Len(toUpstream[c]) : toUpstream[c][j].id = i
            \/ \E j \in 1..Len(messageBuffer[c]) : messageBuffer[c][j].id = i
            \/ \E j \in 1..Len(toClient[c]) :
                   toClient[c][j].src = "proxy" /\ toClient[c][j].re = i

\* C9: the frames forwarded to the client are exactly the frames received
\* from upstream while the client socket was OPEN, once each, in arrival
\* order, each with the kind (text / binary) it arrived with.
C9_UpstreamFramesForwarded ==
    \A c \in Conns :
        IdKinds(SelectSeq(toClient[c], IsForwarded))
            = IdKinds(SelectSeq(upRecv[c], ClientWasOpen))

\* a binary frame and then a text frame arrived from upstream while the
\* client was OPEN, and both were forwarded
C9_Witness ==
    \E c \in Conns :
        /\ Len(upRecv[c]) = 2
        /\ upRecv[c][1].kind = "binary" /\ upRecv[c][1].clientOpen
        /\ upRecv[c][2].kind = "text" /\ upRecv[c][2].clientOpen
        /\ Len(SelectSeq(toClient[c], IsForwarded)) = 2

Count(s, type) == Cardinality({i \in 1..Len(s) : s[i].type = type})

\* C2: whatever the interleaving of fallback timers and session.updated
\* frames, input_text_buffer.append and input_text_buffer.commit are each
\* sent at most once, and the fallback path sends input at most once.
C2_InputSentAtMostOnce ==
    /\ Count(sent, "input_text_buffer.append") <= 1
    /\ Count(sent, "input_text_buffer.commit") <= 1
    /\ fallbackSends <= 1

\* two timers were armed, one of them sent the input, a session.updated
\* arrived as well and nothing is armed any more
C2_Witness ==
    /\ timerSeq >= 2
    /\ fallbackSends = 1
    /\ Count(rxLog, "session.updated") >= 1
    /\ timers = {}
    /\ Count(sent, "input_text_buffer.commit") = 1

Increasing(s) == \A i, j \in 1..Len(s) : i < j => s[i] < s[j]

\* C5: the accumulator holds the audio frames in arrival order, and a result
\* delivered on session.finished holds every audio frame that arrived.
C5_ChunksInArrivalOrder ==
    /\ Increasing(audioChunks)
    /\ promise.st = "resolved" =>
            \A a \in Range(audioRx) : Range(BytesOf(a)) \subseteq Range(promise.val.data)

\* C6: when the connection closes with no session.finished received and no
\* audio accumulated, the call fails, and with the closed-without-audio error
\* unless it had failed before.
C6_ClosedWithoutAudioReported ==
    [][(/\ ws # "CLOSED" /\ ws' = "CLOSED"
        /\ Count(rxLog, "session.finished") = 0
        /\ Len(audioChunks) = 0)
       => /\ promise'.st = "rejected"
          /\ promise.st = "pending"
                => promise'.val = "Connection closed without receiving audio"]_vars

ErrorReceived ==
    /\ Len(rxLog') = Len(rxLog) + 1
    /\ rxLog'[Len(rxLog')].type = "error"

\* C10: in any state, the step that receives an error event rejects the call
\* with the event's message ('WebSocket error' when it carries none) and
\* requests the close of the socket; once an error event was received the
\* call is never resolved with audio.
C10_ErrorEventFailsCall ==
    /\ [][ErrorReceived =>
            /\ promise' = [st |-> "rejected",
                           val |-> IF rxLog'[Len(rxLog')].arg = ""
                                   THEN "WebSocket error"
                                   ELSE rxLog'[Len(rxLog')].arg]
            /\ ws' = "CLOSING"]_vars
    /\ [](Count(rxLog, "error") > 0 => promise.st # "resolved")

\* an error event arrived after session.created, input and audio
C10_Witness ==
    /\ Count(rxLog, "error") = 1
    /\ sessionCreated /\ inputSent
    /\ Len(audioChunks) > 0
    /\ promise = [st |-> "rejected", val |-> "quota exceeded"]
    /\ ws = "CLOSED"

\* C3: no block is started at a time before the clock value read when it
\* was scheduled.
C3_NeverScheduledInPast ==
    \A i \in 1..Len(blocks) : blocks[i].start >= blocks[i].now

RECURSIVE Flatten(_)
Flatten(ss) == IF ss = <<>> THEN <<>> ELSE Head(ss) \o Flatten(Tail(ss))

\* adjacent runs joined: the canonical form of a byte sequence
RECURSIVE Norm(_)
Norm(rs) ==
    IF Len(rs) < 2 THEN rs
    ELSE IF rs[2][1] = rs[1][2] + 1
         THEN Norm(<< <<rs[1][1], rs[2][2]>> >> \o SubSeq(rs, 3, Len(rs)))
         ELSE <<rs[1]>> \o Norm(Tail(rs))

Consumed == Norm(Flatten([i \in 1..Len(blocks) |-> blocks[i].bytes]))
RunOf(first, last) == IF last < first THEN <<>> ELSE << <<first, last>> >>

\* C4: at completion (no callback having thrown on the way) the bytes consumed
\* by the decode passes and the flush, in order, are the bytes received, less
\* at most one trailing byte.
C4_BytesConserved ==
    (pc = "done" /\ ~threw) => \E r \in {0, 1} : Consumed = RunOf(1, received - r)

\* the step receives a frame of the given type
Received(type) ==
    /\ Len(rxLog') = Len(rxLog) + 1
    /\ rxLog'[Len(rxLog')].type = type

\* C11: the step that receives session.finished requests the close of the
\* socket and, when a chunk is accumulated, resolves the call with a WAV whose
\* data section is the concatenation of the accumulated chunks in accumulation
\* order (its header giving that length); with no chunk accumulated it
\* rejects the call with 'No audio data received'.
C11_FinishedDeliversWav ==
    [][Received("session.finished") =>
         /\ ws' = "CLOSING"
         /\ IF Len(audioChunks) > 0
            THEN LET data == Flatten([i \in 1..Len(audioChunks) |->
                                          BytesOf(audioChunks[i])])
                 IN /\ promise'.st = "resolved"
                    /\ promise'.val.data = data
                    /\ promise'.val.dataSize = Len(data)
                    /\ promise'.val.riffSize = 36 + Len(data)
            ELSE promise' = [st |-> "rejected", val |-> "No audio data received"]]_vars

\* the call was resolved with the bytes of two chunks that were accumulated
\* against their arrival order (a Blob first, a delta second), and the socket
\* has closed
C11_Witness ==
    /\ promise.st = "resolved"
    /\ Len(promise.val.data) = 4
    /\ promise.val.data[1][1] > promise.val.data[3][1]
    /\ ws = "CLOSED"

FinishSent == Count(sent', "session.finish") > Count(sent, "session.finish")

\* C12: session.finish is sent only by a step that receives response.done
\* while finishPending is set (and clears it), at most once, and only after
\* input_text_buffer.commit went out on the open socket.
C12_FinishOnlyAfterCommitOnce ==
    /\ [][FinishSent => /\ Received("response.done")
                        /\ finishPending /\ ~finishPending']_vars
    /\ [](Count(sent, "session.finish") <= 1)
    /\ [](\A i \in 1..Len(sent) :
             sent[i].type = "session.finish" =>
                /\ sent[i].open
                /\ \E j \in 1..(i - 1) :
                       sent[j].type = "input_text_buffer.commit" /\ sent[j].open)

\* response.done arrived twice after the input was sent; one session.finish
C12_Witness ==
    /\ Count(rxLog, "response.done") >= 2
    /\ Count(sent, "input_text_buffer.commit") = 1
    /\ Count(sent, "session.finish") = 1

InputTypes == {"input_text_buffer.append", "input_text_buffer.commit"}

\* The first half of C13 alone: the step that receives session.created sends
\* session.update on the open socket and arms a new fallback timer, which
\* updateWaitTimer then names.
CreatedConfiguresAndArms ==
    [][Received("session.created") =>
         /\ sent' = Append(sent, [type |-> "session.update", open |-> TRUE])
         /\ updateWaitTimer' \in timers' \ timers]_vars

\* C13: the step that receives session.created sends session.update and arms
\* the fallback timer, and input_text_buffer.append / commit are never sent
\* before session.created was received and session.update sent.
C13_InputOnlyAfterConfig ==
    /\ CreatedConfiguresAndArms
    /\ [](\A i \in 1..Len(sent) :
             sent[i].type \in InputTypes =>
                /\ sessionCreated
                /\ \E j \in 1..(i - 1) : sent[j].type = "session.update")

IsInput(e) == e.type \in InputTypes

\* a fallback timer fires (no frame is received, the socket state stays)
TimerFires ==
    /\ timers' # timers /\ timers' \subseteq timers
    /\ rxLog' = rxLog /\ ws' = ws

\* C14: when a fallback timer fires on the open socket before any
\* session.updated was received, then after that step input_text_buffer.append
\* followed by input_text_buffer.commit have been sent, each exactly once; and
\* once session.created was received on a socket that stays open, the input is
\* eventually sent.
C14_FallbackSendsInputOnce ==
    /\ [][(TimerFires /\ ws = "OPEN" /\ Count(rxLog, "session.updated") = 0) =>
            SelectSeq(sent', IsInput)
              = << [type |-> "input_text_buffer.append", open |-> TRUE],
                   [type |-> "input_text_buffer.commit", open |-> TRUE] >>]_vars
    /\ ((sessionCreated /\ ws = "OPEN") ~> (inputSent \/ ws # "OPEN"))

\* the fallback path sent the input on the open socket, no session.updated
\* having been received
C14_Witness ==
    /\ fallbackSends = 1
    /\ Count(rxLog, "session.updated") = 0
    /\ ws = "OPEN"
    /\ Count(sent, "input_text_buffer.commit") = 1
    /\ timers = {}

C17_NoTimerOutlivesClose ==
    /\ [](ws = "CLOSED" => timers = {} /\ timeout # "armed")
    /\ [][ws = "CLOSED" =>
            /\ sent' = sent
            /\ inputSent' = inputSent /\ finishPending' = finishPending]_vars

Gone == {"CLOSING", "CLOSED"}

\* C16: on a bridged connection, once the client socket has closed the
\* upstream socket is closed or closing, and once the upstream socket has
\* failed or closed the client socket is closed or closing; and again and
\* again (so, sockets never reopening, from some moment on) every bridge with
\* a side closed or closing has both sockets closed.
C16_ClosePropagates ==
    /\ [](\A c \in Conns :
            upState[c] # "NULL" =>
               /\ clientState[c] = "CLOSED" => upState[c] \in Gone
               /\ upState[c] \in Gone => clientState[c] \in Gone)
    /\ []<>(\A c \in Conns :
              (upState[c] # "NULL" /\ (clientState[c] \in Gone \/ upState[c] \in Gone))
                 => (clientState[c] = "CLOSED" /\ upState[c] = "CLOSED"))

\* a bridge that had forwarded a client frame is closed on both sides, and
\* the other bridge was closed while its upstream had not sent anything
C16_Witness ==
    /\ clientState = [c \in Conns |-> "CLOSED"]
    /\ upState = [c \in Conns |-> "CLOSED"]
    /\ Len(toUpstream[1]) > 0
    /\ upRecv[2] = <<>>

\* C18: a client frame received while the upstream socket is closing (after
\* a failure) or closed is not sent to upstream, not queued, and answered with
\* an error message to the client.
C18_ErrorWhenUpstreamGone ==
    \A c \in Conns :
        \A i \in 1..Len(clientRecv[c]) :
            clientRecv[c][i].up \in Gone =>
               /\ \A j \in 1..Len(toUpstream[c]) : toUpstream[c][j].id # i
               /\ \A j \in 1..Len(messageBuffer[c]) : messageBuffer[c][j].id # i
               /\ \E j \in 1..Len(toClient[c]) :
                      toClient[c][j].src = "proxy" /\ toClient[c][j].re = i

\* The part of C18 that holds: such a frame is neither forwarded nor queued.
GoneFrameNotRelayed ==
    \A c \in Conns :
        \A i \in 1..Len(clientRecv[c]) :
            clientRecv[c][i].up \in Gone =>
               /\ \A j \in 1..Len(toUpstream[c]) : toUpstream[c][j].id # i
               /\ \A j \in 1..Len(messageBuffer[c]) : messageBuffer[c][j].id # i

\* C19: without a configured key every connection that arrives gets the
\* error message and is closed, no upstream socket exists for it, and nothing
\* is received from it, forwarded or queued.
C19_NoKeyRejects ==
    ~apiKey =>
        \A c \in Conns :
            /\ upState[c] = "NULL"
            /\ toUpstream[c] = <<>> /\ messageBuffer[c] = <<>> /\ clientRecv[c] = <<>>
            /\ clientState[c] # "NONE" =>
                   /\ clientState[c] \in Gone
                   /\ toClient[c] = << [src |-> "proxy",
                                        msg |-> "Alibaba API key not configured",
                                        re |-> 0] >>

\* no key: the first connection was rejected and has closed, the second was
\* rejected and is closing
C19_Witness ==
    /\ ~apiKey
    /\ clientState[1] = "CLOSED" /\ clientState[2] = "CLOSING"
    /\ Len(toClient[2]) = 1

\* a step of the read loop that received a chunk
ChunkRead == nReads' = nReads + 1

\* what C20 says of such a step, buf being the buffer with the chunk appended
DrainStep ==
    LET buf == Accumulate(buffer, received + 1, received' - received)
        n == RunsLen(buf)
        whole == 2 * (n \div 2)
    IN IF n >= 9600
       THEN /\ Len(blocks') = Len(blocks) + 1
            /\ Norm(blocks'[Len(blocks')].bytes) = Norm(TakeBytes(buf, whole))
            /\ Norm(buffer') = Norm(SliceBytes(buf, whole))
            /\ RunsLen(buffer') \in {0, 1}
       ELSE /\ blocks' = blocks
            /\ Norm(buffer') = Norm(buf)
            /\ pc' = "reading" /\ outcome' = outcome

\* C20: every step that receives a chunk either (buffer of 9600 bytes or
\* more) decodes one block of all the complete 2-byte samples buffered and
\* removes exactly those bytes, leaving 0 or 1 byte, or (fewer bytes) decodes
\* nothing, reports no error and keeps the buffer as it is.
C20_DrainAllOrNothing == [][ChunkRead => DrainStep]_vars

\* C20 for the runs in which no callback has thrown: it holds in both
\* definitions of the hook.
DrainWithoutThrow == [][(ChunkRead /\ ~threw') => DrainStep]_vars

\* the step in which the read loop ends and the call completes
Completes == pc = "reading" /\ pc' = "done"

\* what C21 says of the step that completes the call
FlushStep ==
    LET n == RunsLen(buffer)
        whole == 2 * (n \div 2)
    IN IF n >= 2
       THEN /\ Len(blocks') = Len(blocks) + 1
            /\ blocks'[Len(blocks')].samples = n \div 2
            /\ Norm(blocks'[Len(blocks')].bytes) = Norm(TakeBytes(buffer, whole))
       ELSE blocks' = blocks

\* C21: when the stream ends and the call completes, the buffered bytes that
\* form complete samples (2 bytes or more buffered, even if fewer than 9600)
\* are decoded and scheduled as one final block; only with 0 or 1 byte
\* buffered is nothing scheduled.
C21_FinalBlockFlushed == [][Completes => FlushStep]_vars

\* C21 for the first definition of the hook alone: it holds.
Rev1FinalBlockFlushed == [][(Completes /\ rev = 1) => FlushStep]_vars

\* exactly 9600 bytes are fed to the empty accumulator
Feeds9600 == ChunkRead /\ buffer = <<>> /\ received' - received = 9600

Schedules == Len(blocks') = Len(blocks) + 1

Max(a, b) == IF a >= b THEN a ELSE b

\* C23 (the definition of lines 30-281, which the claim is about): the first
\* block of a generation starts 0.1 s after the clock value read when it is
\* scheduled; every later block starts at the greater of that clock value and
\* the previous block's start plus the previous block's duration.
C23_StartTimes ==
    [][(rev = 1 /\ Schedules) =>
         LET b == blocks'[Len(blocks')]
         IN IF blocks = <<>>
            THEN b.start = clock + TicksPerSecond \div 10
            ELSE LET p == blocks[Len(blocks)]
                     nextStart == p.start + p.samples * (TicksPerSecond \div ctxRate)
                 IN b.start = Max(nextStart, clock)]_vars

\* first definition: a second block was scheduled when the clock had passed
\* the end of the first, and starts at that clock value
C23_Witness ==
    /\ rev = 1 /\ Len(blocks) >= 2
    /\ blocks[1].start = blocks[1].now + TicksPerSecond \div 10
    /\ blocks[2].start = blocks[2].now
    /\ blocks[2].now > blocks[1].start + blocks[1].samples * (TicksPerSecond \div ctxRate)

\* C24 (the definition of lines 30-281 for the final block): the progress
\* never decreases, is at most 95 as long as the read loop runs, and is 100
\* only when the call has completed, the final block scheduled if 2 bytes or
\* more were left.
C24_ProgressMonotoneCapped ==
    /\ [][progress' >= progress]_vars
    /\ [](pc = "reading" => progress <= 95)
    /\ [](progress = 100 =>
            /\ pc = "done"
            /\ (rev = 1 /\ RunsLen(buffer) >= 2) =>
                   (blocks # <<>> /\ blocks[Len(blocks)].final))

\* first definition: after twenty blocks in the loop (the estimate reached
\* its cap at the nineteenth) and the final block the progress is 100
C24_Witness ==
    /\ rev = 1 /\ pc = "done" /\ progress = 100
    /\ Len(blocks) >= 21
    /\ blocks[Len(blocks)].final

RECURSIVE SumSamples(_)
SumSamples(bs) == IF bs = <<>> THEN 0 ELSE bs[1].samples + SumSamples(Tail(bs))

\* C25: the duration reported at completion is the number of samples of all
\* the blocks scheduled divided by the context's sample rate, whatever the
\* clock did in between.
C25_DurationFromSamples ==
    pc = "done" =>
        /\ outcome.kind = "complete"
        /\ totalSamples = SumSamples(blocks)
        /\ outcome.val = SumSamples(blocks) * (TicksPerSecond \div ctxRate)

\* a completed call of two blocks or more, the second started late, so that
\* the time elapsed on the clock exceeds the duration reported
C25_Witness ==
    /\ pc = "done" /\ Len(blocks) >= 2
    /\ blocks[2].start > blocks[1].start + blocks[1].samples * (TicksPerSecond \div ctxRate)
    /\ outcome.val < blocks[Len(blocks)].start

UpstreamFailed == upstream.status # 0 /\ ~Ok(upstream.status)

\* C26: once the upstream has answered with a status outside 200..299, the
\* proxy's answer has that status and the upstream body text and no audio,
\* and the hook, when it has the answer, has called onError with a message
\* holding the status and the body, has scheduled no block and does not
\* complete.
C26_UpstreamErrorRelayed ==
    UpstreamFailed =>
        /\ httpPc \in {"relayed", "received"} =>
              /\ relayed.status = upstream.status
              /\ relayed.body = upstream.body
              /\ ~relayed.audio
        /\ httpPc = "received" =>
              /\ pc = "failed" /\ outcome.kind = "error"
              /\ ToString(upstream.status) \in Range(errorMsg)
              /\ upstream.body # "" => upstream.body \in Range(errorMsg)
        /\ pc \in {"fetching", "failed"}
        /\ blocks = <<>> /\ chunkCalls = <<>>

C26_Witness ==
    /\ upstream.status = 404 /\ upstream.body = "voice not found"
    /\ httpPc = "received" /\ relayed.status = 404
    /\ outcome.kind = "error" /\ "voice not found" \in Range(errorMsg)

\* C27: the WAV built from N bytes of PCM is 44 + N bytes long, its RIFF
\* chunk size (offset 4) is 36 + N and its data chunk size (offset 40) is N;
\* 100 bytes at 24000 Hz give 144 bytes and a RIFF chunk size of 136.
C27_WavSizes ==
    wav # NoWav =>
        /\ wav.size = 44 + pcmLen
        /\ wav.riffSize = 36 + pcmLen
        /\ wav.dataSize = pcmLen
        /\ Len(wav.data) = pcmLen
        /\ (pcmLen = 100 /\ pcmRate = 24000) =>
              (wav.size = 144 /\ wav.riffSize = 136 /\ wav.numChannels = 1
               /\ wav.bitsPerSample = 16 /\ wav.sampleRate = 24000)

C27_Witness ==
    /\ pcmLen = 100 /\ pcmRate = 24000
    /\ wav # NoWav /\ wav.size = 144

\* the keys of the outermost object of a JSON text, in the order a reader
\* meets them: a quote is real unless an odd run of backslashes precedes it,
\* a character is bare when an even number of real quotes precedes it, a key
\* is a string opened at depth 1 right after the brace or a comma
TopKeys(str) ==
    LET n == Len(str)
        Escaped(q) ==
            Cardinality({k \in 1..(q - 1) : \A m \in k..(q - 1) : str[m] = "\\"}) % 2 = 1
        quotes == {q \in 1..n : str[q] = "\"" /\ ~Escaped(q)}
        Outside(p) == Cardinality({q \in quotes : q < p}) % 2 = 0
        Bare(p, c) == str[p] = c /\ Outside(p)
        Depth(p) == Cardinality({m \in 1..(p - 1) : Bare(m, "{")})
                    - Cardinality({m \in 1..(p - 1) : Bare(m, "}")})
        Before(p) == CHOOSE m \in 1..(p - 1) :
                        str[m] # " " /\ \A k \in (m + 1)..(p - 1) : str[k] = " "
        starts == {q \in quotes : /\ Outside(q)
                                  /\ Depth(q) = 1
                                  /\ str[Before(q)] \in {"{", ","}}
        End(q) == CHOOSE e \in quotes : e > q /\ \A m \in quotes : m > q => m >= e
        Nth(k) == CHOOSE q \in starts : Cardinality({r \in starts : r < q}) = k - 1
    IN [k \in 1..Cardinality(starts) |-> SubSeq(str, Nth(k) + 1, End(Nth(k)) - 1)]

\* C28: the text sent has event_id as its first key, then the keys of the
\* payload in the order of the object literal.
C28_EventIdFirst ==
    evJson # <<>> =>
        TopKeys(evJson) =
            << <<"event_id">> >> \o [i \in 1..Len(evPayload) |-> <<evPayload[i].k>>]

\* an append event whose text holds the characters the replace calls look for
C28_Witness ==
    /\ evJson # <<>>
    /\ Len(evPayload) = 2 /\ evPayload[2].k = "text"
    /\ evPayload[2].v.chars = <<"\"", ":", ",">>
    /\ TopKeys(evJson) = << <<"event_id">>, <<"type">>, <<"text">> >>

NewestFirst(list) == \A i \in 1..Len(list) - 1 : list[i] > list[i + 1]

\* C29: the history holds at most MAX_HISTORY items, newest first, and they
\* are the most recently added items not removed: the list that results
\* when every call works on the result of the call before it.
C29_HistoryIsRecent ==
    /\ Len(history) <= MAX_HISTORY
    /\ NewestFirst(history)
    /\ history = ideal

\* the size and the order do hold
HistoryBoundedAndOrdered ==
    /\ Len(history) <= MAX_HISTORY /\ NewestFirst(history)
    /\ stored = history

\* a call made after the render that followed the call before it gives the
\* list claimed
ObservedCallsAgree ==
    [][(closure = history /\ history = ideal) => history' = ideal']_vars

\* C30: messageBuffer grows only in a step taken while the upstream socket is
\* CONNECTING, and from the open handler on (the only step that makes the
\* socket OPEN) it is empty for good.
C30_QueueOnlyWhileConnecting ==
    /\ [][\A c \in Conns :
            Len(messageBuffer'[c]) > Len(messageBuffer[c]) =>
                upState[c] = "CONNECTING"]_vars
    /\ \A c \in Conns :
            [](upState[c] = "OPEN" => [](messageBuffer[c] = <<>>))

\* the open handler flushed a queued frame, a later frame went out directly
\* and the upstream has closed since: the queue is empty
C30_Witness ==
    \E c \in Conns :
        /\ upState[c] = "CLOSED" /\ messageBuffer[c] = <<>>
        /\ Len(toUpstream[c]) = 2
        /\ clientRecv[c][1].up = "CONNECTING" /\ clientRecv[c][2].up = "OPEN"

\* the stream positions of a byte sequence held as runs are consecutive
Contiguous(rs) == \A i \in 1..Len(rs) - 1 : rs[i + 1][1] = rs[i][2] + 1

\* block i takes an even number of consecutive bytes and starts at the byte
\* after the last byte of block i - 1 (at stream position 1 for the first)
BlockAligned(i) ==
    LET b == blocks[i]
    IN /\ b.samples >= 1
       /\ RunsLen(b.bytes) = b.samples * BytesPerSample
       /\ Contiguous(b.bytes)
       /\ b.bytes[1][1] = 1 + BytesPerSample * SumSamples(SubSeq(blocks, 1, i - 1))

\* C31 (the definition of lines 30-281): every decode pass takes an even
\* number of bytes from the sample boundary where the pass before it ended,
\* and at completion the blocks together are the complete samples of the
\* whole stream, however the stream was cut into chunks.
C31_BlocksAreTheStream ==
    rev = 1 =>
        /\ \A i \in 1..Len(blocks) : BlockAligned(i)
        /\ pc = "done" => SumSamples(blocks) = received \div BytesPerSample

\* it does hold as long as no callback throws
AlignedWithoutThrow == threw \/ C31_BlocksAreTheStream

\* odd-length chunks that cut a sample in two, no callback throwing
OddSplitDecoded ==
    /\ rev = 1 /\ pc = "done" /\ ~threw
    /\ received % 2 = 1 /\ Len(blocks) >= 2
    /\ \E i \in 1..Len(blocks) : Len(blocks[i].bytes) >= 2

\* C32: the value decoded from the bytes (lo, hi) is lo + 256 * hi, less
\* 65536 when that is 32768 or more, over 32768: it lies in [-1, 1), and the
\* two bytes can be read back from it, so no two pairs give the same value.
C32_DecodeLittleEndianSigned ==
    decoded # NotDecoded =>
        LET u == pcmLo + 256 * pcmHi
        IN /\ decoded = (IF u >= 32768 THEN u - 65536 ELSE u)
           /\ decoded >= -32768 /\ decoded < 32768
           /\ (decoded + 65536) % 256 = pcmLo
           /\ ((decoded + 65536) % 65536) \div 256 = pcmHi

\* the bytes 00 80 decode to -32768 / 32768 = -1
C32_Witness == pcmLo = 0 /\ pcmHi = 128 /\ decoded = -32768

\* when a block begins to play: source.start(when) with when already past
\* starts the source at once
Begins(b) == Max(b.start, b.now)

Ends(b) == Begins(b) + b.samples * (TicksPerSecond \div ctxRate)

\* C33: a block begins no earlier than the block before it ends, and exactly
\* at that end when the clock read at scheduling had not passed it.
C33_GaplessNoOverlap ==
    \A i \in 2..Len(blocks) :
        /\ Begins(blocks[i]) >= Ends(blocks[i - 1])
        /\ blocks[i].now <= Ends(blocks[i - 1]) => Begins(blocks[i]) = Ends(blocks[i - 1])

\* the definition of lines 30-281, which clamps, does schedule that way
Rev1GaplessNoOverlap == rev = 1 => C33_GaplessNoOverlap

\* the values passed to source.start follow one another without gap or
\* overlap in the definition of lines 312-513: it is the playback that does not
Rev2StartArguments ==
    rev = 2 =>
        \A i \in 2..Len(blocks) :
            blocks[i].start =
                blocks[i - 1].start + blocks[i - 1].samples * (TicksPerSecond \div ctxRate)

\* nothing that belongs to a connection other than c changes in the step
OnlyConn(c) ==
    \A d \in Conns \ {c} :
        /\ clientState'[d] = clientState[d] /\ upState'[d] = upState[d]
        /\ messageBuffer'[d] = messageBuffer[d]
        /\ toUpstream'[d] = toUpstream[d] /\ toClient'[d] = toClient[d]
        /\ clientRecv'[d] = clientRecv[d] /\ upRecv'[d] = upRecv[d]

\* what is added in the step to the queue, to the upstream and to the client
\* of connection c comes from c's own client, c's own queue and c's own
\* upstream
OwnFrames(c) ==
    LET got == clientRecv'[c] # clientRecv[c]
        f == clientRecv'[c][Len(clientRecv'[c])]
    IN /\ messageBuffer'[c] # messageBuffer[c] =>
              \/ got /\ messageBuffer'[c] = Append(messageBuffer[c], Buffered(f))
              \/ upState[c] = "CONNECTING" /\ upState'[c] = "OPEN"
                 /\ messageBuffer'[c] = <<>>
       /\ toUpstream'[c] # toUpstream[c] =>
              \/ got /\ toUpstream'[c] = Append(toUpstream[c], DirectSend(f))
              \/ upState[c] = "CONNECTING" /\ upState'[c] = "OPEN"
                 /\ toUpstream'[c] = toUpstream[c] \o Flush(messageBuffer[c])
       /\ \A i \in (Len(toClient[c]) + 1)..Len(toClient'[c]) :
              toClient'[c][i].src = "upstream" =>
                  /\ upRecv'[c] # upRecv[c]
                  /\ toClient'[c][i].id = upRecv'[c][Len(upRecv'[c])].id

\* C34: every step of the proxy touches one connection only (its sockets,
\* its queue, what was sent on them), so closing one closes no other, and
\* the frames it queues or forwards there are that connection's own.
C34_ConnectionsIsolated ==
    [][\E c \in Conns : OnlyConn(c) /\ OwnFrames(c)]_vars

\* two connections bridged at once: a frame of the first went to its open
\* upstream, a frame of the second waits in its queue, the first has closed
\* and the second is still open
C34_Witness ==
    /\ clientState[1] = "CLOSED" /\ clientState[2] = "OPEN"
    /\ Len(toUpstream[1]) = 1 /\ toUpstream[2] = <<>>
    /\ messageBuffer[1] = <<>> /\ Len(messageBuffer[2]) = 1
    /\ upState[2] = "CONNECTING"

\* C35: once the close event has been handled the promise generate()
\* returned is settled, resolved with the audio or rejected with an error.
C35_CloseSettlesCall == ws = "CLOSED" => promise.st # "pending"

\* the close handler does settle the call when neither session.created nor
\* any audio came
CloseBeforeCreatedSettles ==
    (ws = "CLOSED" /\ ~sessionCreated /\ audioChunks = <<>> /\ reads = {})
        => promise.st # "pending"

\* the session is terminal: it handled session.finished or an error event, or
\* its connect timeout fired, and the close of the socket was requested
Terminal ==
    /\ ws \in Gone
    /\ \/ Count(rxLog, "session.finished") > 0
       \/ Count(rxLog, "error") > 0
       \/ timeout = "fired"

\* the entries a step adds to the log of sendEvent calls
NewlySent == {i \in (Len(sent) + 1)..Len(sent') : TRUE}

ControlOrder ==
    <<"session.update", "input_text_buffer.append", "input_text_buffer.commit",
      "session.finish">>

\* the control messages the socket transmitted, in the order of the calls
Transmitted == SelectSeq(sent, LAMBDA e : e.open)

\* C37: whatever frames arrive and in whatever order, the control messages
\* the session sends are a prefix of session.update, input_text_buffer.append,
\* input_text_buffer.commit, session.finish.
C37_ControlSequencePrefix ==
    /\ Len(Transmitted) <= Len(ControlOrder)
    /\ \A i \in 1..Len(Transmitted) : Transmitted[i].type = ControlOrder[i]

\* when session.created is the first frame and is received once, the order holds
CreatedOnceFirst ==
    /\ Count(rxLog, "session.created") <= 1
    /\ rxLog # <<>> => rxLog[1].type = "session.created"

OrderedWhenCreatedOnceFirst == CreatedOnceFirst => C37_ControlSequencePrefix

\* all four control messages were transmitted in the order of the protocol
FullSequenceSent ==
    /\ CreatedOnceFirst
    /\ Len(Transmitted) = 4

\* what a JSON reader gets for the last string value of a JSON text: the
\* characters between the last two real quotes, without the backslash that
\* escapes the character after it
LastString(str) ==
    LET n == Len(str)
        Run(p) == Cardinality({k \in 1..(p - 1) : \A m \in k..(p - 1) : str[m] = "\\"})
        quotes == {q \in 1..n : str[q] = "\"" /\ Run(q) % 2 = 0}
        close == CHOOSE q \in quotes : \A r \in quotes : r <= q
        open == CHOOSE q \in quotes \ {close} : \A r \in quotes \ {close} : r <= q
        kept == {p \in (open + 1)..(close - 1) : ~(str[p] = "\\" /\ Run(p) % 2 = 0)}
        Nth(k) == CHOOSE p \in kept : Cardinality({r \in kept : r < p}) = k - 1
    IN [k \in 1..Cardinality(kept) |-> str[Nth(k)]]

IsAppend(payload) == Len(payload) = 2 /\ payload[2].k = "text"

\* C38: the text a JSON reader gets from the string sendEvent sends for
\* input_text_buffer.append is the text the caller passed.
C38_TextRoundTrips ==
    (evJson # <<>> /\ IsAppend(evPayload)) =>
        LastString(evJson) = evPayload[2].v.chars

HasPair(text, a, b) == \E i \in 1..(Len(text) - 1) : text[i] = a /\ text[i + 1] = b

\* a text the four replace calls change: it ends with a comma or starts with
\* a colon (next to the quotes of the JSON string), or holds a quote followed
\* by a colon or a comma followed by a brace
Rewritten(text) ==
    /\ text # <<>>
    /\ \/ text[Len(text)] = ","
       \/ text[1] = ":"
       \/ HasPair(text, "\"", ":")
       \/ HasPair(text, ",", "{")

\* every other text is read back unchanged
OtherTextsRoundTrip ==
    (evJson # <<>> /\ IsAppend(evPayload) /\ ~Rewritten(evPayload[2].v.chars)) =>
        LastString(evJson) = evPayload[2].v.chars

\* the rewritten texts are exactly the ones read back changed
RewrittenTextsChange ==
    (evJson # <<>> /\ IsAppend(evPayload) /\ Rewritten(evPayload[2].v.chars)) =>
        LastString(evJson) # evPayload[2].v.chars

\* the call has terminated: the completion ran or the catch ran
Ended == pc \in {"done", "failed"}

\* C39: a call that has terminated has called exactly one of onComplete and
\* onError and left isStreaming false; that callback is called once, in the
\* step that ends the call, and no onChunk call follows it; the chunk numbers
\* passed to onChunk are 1, 2, 3, ... in the order of the calls.
C39_OneCompletionAfterChunks ==
    /\ [](Ended => outcome.kind \in {"complete", "error"} /\ ~isStreaming)
    /\ [](~Ended => outcome.kind = "none" /\ isStreaming)
    /\ [][outcome' # outcome => outcome.kind = "none" /\ ~Ended /\ Ended']_vars
    /\ [][outcome.kind # "none" => chunkCalls' = chunkCalls]_vars
    /\ [](chunkCalls = [i \in 1..Len(chunkCalls) |-> i])

\* a call whose callbacks did not throw completed after three onChunk calls,
\* the last of them for the final block
C39_Witness ==
    /\ pc = "done" /\ ~threw
    /\ outcome.kind = "complete"
    /\ ~isStreaming
    /\ chunkCalls = <<1, 2, 3>>
    /\ blocks[3].final

\* a call ended by the catch after an onChunk call: onError, not onComplete
EndedByCatch ==
    /\ pc = "failed" /\ ~threw
    /\ outcome.kind = "error"
    /\ ~isStreaming
    /\ chunkCalls = <<1>>

=============================================================================
